---- MODULE Spec2Model ----
(***************************************************************************)
(* Model of the two interactive ALMA archive scripts, alma.py and          *)
(* alma_w-hydrae.py.  Each script is one linear pipeline: prompt, resolve, *)
(* query, pick a dataset, list and filter its files, pick a file,          *)
(* download, extract, open, plot.  The position in the script is pc.       *)
(*                                                                         *)
(* Python strings are sequences of one-character strings, so that          *)
(* str.lower, str.endswith, str.strip, int() and float() are computed and  *)
(* not assumed.  Pixel values are integers in units of 1e-10; percentiles  *)
(* and contrast bounds are kept in hundredths of that unit, which makes    *)
(* numpy's linear interpolation for q = 1 and q = 99 exact.                *)
(***************************************************************************)
EXTENDS Integers, Sequences, FiniteSets, TLC

VARIABLES script, pc, target_name, radius_input, out, radius, results,
          ds_index, selected_uid, info_table, colnames, fits_urls, rows,
          file_index,
          first_file_url, downloaded_file, dir, tar_members, fits_file,
          hdul, data, vmin, vmax, norm, calls, error

vars == <<script, pc, target_name, radius_input, out, radius, results,
          ds_index, selected_uid, info_table, colnames, fits_urls, rows,
          file_index,
          first_file_url, downloaded_file, dir, tar_members, fits_file,
          hdul, data, vmin, vmax, norm, calls, error>>

\* ------------------------------------------------------------------------
\* Bounds of the model
\* ------------------------------------------------------------------------
MaxDatasets == 2
MaxFiles == 2

\* ------------------------------------------------------------------------
\* Python string primitives
\* ------------------------------------------------------------------------
UpperCase == <<"A","B","C","D","E","F","G","H","I","J","K","L","M",
               "N","O","P","Q","R","S","T","U","V","W","X","Y","Z">>
LowerCase == <<"a","b","c","d","e","f","g","h","i","j","k","l","m",
               "n","o","p","q","r","s","t","u","v","w","x","y","z">>
Digits == <<"0","1","2","3","4","5","6","7","8","9">>
Whitespace == {" ", "\t", "\n"}

LowerChar(c) ==
    IF \E i \in 1..Len(UpperCase) : UpperCase[i] = c
    THEN LowerCase[CHOOSE i \in 1..Len(UpperCase) : UpperCase[i] = c]
    ELSE c

\* str.lower()
Lower(s) == [i \in 1..Len(s) |-> LowerChar(s[i])]

\* str.endswith(suffix)
EndsWith(s, suffix) ==
    /\ Len(suffix) <= Len(s)
    /\ SubSeq(s, Len(s) - Len(suffix) + 1, Len(s)) = suffix

\* str.strip()
RECURSIVE LStrip(_)
LStrip(s) == IF s # <<>> /\ Head(s) \in Whitespace THEN LStrip(Tail(s)) ELSE s

RECURSIVE RStrip(_)
RStrip(s) ==
    IF s # <<>> /\ s[Len(s)] \in Whitespace
    THEN RStrip(SubSeq(s, 1, Len(s) - 1)) ELSE s

Strip(s) == RStrip(LStrip(s))

IsDigit(c) == \E i \in 1..Len(Digits) : Digits[i] = c
DigitVal(c) == (CHOOSE i \in 1..Len(Digits) : Digits[i] = c) - 1
AllDigits(s) == s # <<>> /\ \A i \in 1..Len(s) : IsDigit(s[i])

RECURSIVE DigitsVal(_)
DigitsVal(s) ==
    IF s = <<>> THEN 0
    ELSE 10 * DigitsVal(SubSeq(s, 1, Len(s) - 1)) + DigitVal(s[Len(s)])

RECURSIVE Pow10(_)
Pow10(k) == IF k = 0 THEN 1 ELSE 10 * Pow10(k - 1)

HasSign(s) == s # <<>> /\ Head(s) \in {"+", "-"}
Unsigned(s) == IF HasSign(s) THEN Tail(s) ELSE s
Sign(s) == IF s # <<>> /\ Head(s) = "-" THEN -1 ELSE 1

\* int(s): [ok |-> FALSE] stands for ValueError
IntParse(s) ==
    LET t == Strip(s)
        u == Unsigned(t)
    IN  IF AllDigits(u)
        THEN [ok |-> TRUE, val |-> Sign(t) * DigitsVal(u), raw |-> <<>>]
        ELSE [ok |-> FALSE, val |-> 0, raw |-> s]

\* position of the decimal point in u, 0 when there is none
DotPos(u) ==
    IF \E i \in 1..Len(u) : u[i] = "."
    THEN CHOOSE i \in 1..Len(u) : u[i] = "." /\ \A j \in 1..(i - 1) : u[j] # "."
    ELSE 0

\* float(s) for literals without an exponent: the value is kind "num" with
\* the exact rational num/den, or "nan", or "inf" with a sign;
\* [ok |-> FALSE] stands for ValueError
FloatParse(s) ==
    LET t == Strip(s)
        u == Unsigned(t)
        w == Lower(u)
        d == DotPos(u)
        ip == IF d = 0 THEN u ELSE SubSeq(u, 1, d - 1)
        fp == IF d = 0 THEN <<>> ELSE SubSeq(u, d + 1, Len(u))
        bad == [ok |-> FALSE, kind |-> "err", num |-> 0, den |-> 1]
    IN  IF w = <<"n","a","n">>
        THEN [ok |-> TRUE, kind |-> "nan", num |-> 0, den |-> 1]
        ELSE IF w \in {<<"i","n","f">>, <<"i","n","f","i","n","i","t","y">>}
        THEN [ok |-> TRUE, kind |-> "inf", num |-> Sign(t), den |-> 1]
        ELSE IF /\ ip \o fp # <<>>
                /\ \A i \in 1..Len(ip) : IsDigit(ip[i])
                /\ \A i \in 1..Len(fp) : IsDigit(fp[i])
        THEN [ok |-> TRUE, kind |-> "num",
              num |-> Sign(t) * DigitsVal(ip \o fp), den |-> Pow10(Len(fp))]
        ELSE bad

\* the comparison radius > 0 on a parsed float (nan > 0 is False)
Positive(r) == r.kind \in {"num", "inf"} /\ r.num > 0

\* os.path.basename(path)
RECURSIVE Basename(_)
Basename(p) ==
    IF \E i \in 1..Len(p) : p[i] = "/"
    THEN Basename(SubSeq(p, (CHOOSE i \in 1..Len(p) : p[i] = "/") + 1, Len(p)))
    ELSE p

\* os.path.join(download_dir, name) with download_dir = "."
download_dir == <<".">>
PathJoin(d, name) == d \o <<"/">> \o name

\* ------------------------------------------------------------------------
\* Inputs and answers of the external services
\* ------------------------------------------------------------------------
\* what the user may type at the target prompt
TargetInputs == { <<"W"," ","H","y","a"," ">> }

\* what the user may type at the radius prompt
RadiusInputs ==
    { <<"0",".","1">>, <<" ","2"," ">>, <<"0">>, <<"-","1">>, <<"0",".","0">>,
      <<"a","b","c">>, <<>>, <<"n","a","n">>, <<"-","i","n","f">> }

\* what the user may type at an index prompt
IndexInputs ==
    { <<"0">>, <<"1">>, <<"2">>, <<"3">>, <<"4">>, <<"-","1">>, <<" ","1"," ">>,
      <<"1",".","0">>, <<"x">>, <<>> }

\* member_ous_uid of the i-th record of a query result
Uid(i) == <<"u","i","d">> \o <<Digits[i + 1]>>

\* the record sets alma.query_region may return
ResultSets == { [i \in 1..n |-> Uid(i)] : n \in 0..MaxDatasets }

\* records a file listing may hold
FileRecords ==
    { [access_url |-> <<"h","/","a",".","f","i","t","s">>,
       access_format |-> "fits", access_estsize |-> "100"],
      [access_url |-> <<"h","/","b",".","F","I","T","S">>,
       access_format |-> "FITS", access_estsize |-> "200"],
      [access_url |-> <<"h","/","c",".","t","a","r",".","g","z">>,
       access_format |-> "x-tar", access_estsize |-> "300"],
      [access_url |-> <<"h","/","d",".","T","A","R",".","G","Z">>,
       access_format |-> "X-TAR", access_estsize |-> "400"],
      [access_url |-> <<"h","/","e",".","t","x","t">>,
       access_format |-> "text", access_estsize |-> "500"] }

RECURSIVE SeqsUpTo(_, _)
SeqsUpTo(S, n) ==
    IF n = 0 THEN { <<>> }
    ELSE LET shorter == SeqsUpTo(S, n - 1)
         IN  shorter \cup { Append(q, x) : q \in shorter, x \in S }

\* the tables alma.get_data_info may return
Listings == SeqsUpTo(FileRecords, MaxFiles)

\* the columns the table may carry: format and size are optional
ColumnSets == { {"access_url", "access_format", "access_estsize"},
                {"access_url"} }

\* names present in the download directory before the run
PriorFiles == { <<"o","l","d",".","f","i","t","s">> }

\* member paths a downloaded tarball may hold
MemberPool == { <<"i","m","g",".","f","i","t","s">>,
                <<"s","/","d",".","f","i","t","s">> }

\* pixel values: a number in units of 1e-10, or NaN
Num(x) == [kind |-> "num", val |-> x]
NaN == [kind |-> "nan", val |-> 0]
\* the pixel arrays an image file may hold
Images ==
    { <<Num(7)>>, <<Num(0), Num(0)>>, <<Num(-2), Num(-2)>>,
      <<Num(0), Num(7)>>, <<NaN, Num(7)>>, <<Num(5), Num(2), Num(7)>> }

NoRadius == [ok |-> FALSE, kind |-> "none", num |-> 0, den |-> 1]
NoValue == [kind |-> "none", val |-> 0]
NoNorm == [vmin |-> NoValue, vmax |-> NoValue]
None == <<>>

\* ------------------------------------------------------------------------
\* The file filter
\* ------------------------------------------------------------------------
FitsSuffix == <<".","f","i","t","s">>
TarGzSuffix == <<".","t","a","r",".","g","z">>
TarSuffix == <<".","t","a","r">>

\* info_table["access_url"]
AccessUrls(table) == [i \in 1..Len(table) |-> table[i].access_url]

IsFitsUrl(url) == EndsWith(Lower(url), FitsSuffix)
IsTarGzUrl(url) == EndsWith(Lower(url), TarGzSuffix)

\* a filter without the preference for images
FilterUrls_NoPreference(table) ==
    LET images == SelectSeq(AccessUrls(table), IsFitsUrl)
    IN  images \o SelectSeq(AccessUrls(table), IsTarGzUrl)

FilterUrls(table) ==
    LET images == SelectSeq(AccessUrls(table), IsFitsUrl)
    IN  IF Len(images) = 0
        THEN SelectSeq(AccessUrls(table), IsTarGzUrl)
        ELSE images

\* a check that lets an empty candidate list through
NoFilesFound_Never(urls) == Len(urls) < 0

NoFilesFound(urls) == Len(urls) = 0

\* the summary printed by alma.py: row i pairs fits_urls[i] with the table's
\* columns read at the same position i, "N/A" for a column the table lacks
SummaryRows(table, cols, urls) ==
    [i \in 1..Len(urls) |->
        [file |-> Basename(urls[i]),
         fmt |-> IF "access_format" \in cols
                 THEN table[i].access_format ELSE "N/A",
         size |-> IF "access_estsize" \in cols
                  THEN table[i].access_estsize ELSE "N/A"]]

\* the summary printed by alma_w-hydrae.py: the URL alone
UrlRows(urls) == [i \in 1..Len(urls) |-> [file |-> urls[i]]]

\* ------------------------------------------------------------------------
\* Validation of the prompts
\* ------------------------------------------------------------------------
\* a radius check that lets zero through
RadiusOk_AllowsZero(r) == r.kind \in {"num", "inf"} /\ r.num >= 0

\* if radius > 0
RadiusOk(r) == Positive(r)

\* a range check that is off by one at the upper end
InRange_OffByOne(i, count) == 0 <= i /\ i <= count

\* if 0 <= index < len(...)
InRange(i, count) == 0 <= i /\ i < count

\* a check that lets an empty result through
NoDatasets_Never(res) == Len(res) < 0

\* if len(results) == 0
NoDatasets(res) == Len(res) = 0

\* ------------------------------------------------------------------------
\* Download and extraction
\* ------------------------------------------------------------------------
\* alma.download_files saves the URL's file name under savedir
DownloadPath(url) == PathJoin(download_dir, Basename(url))

\* downloaded_file.endswith(".tar.gz") or downloaded_file.endswith(".tar")
IsArchiveName(path) == EndsWith(path, TarGzSuffix) \/ EndsWith(path, TarSuffix)

\* the entry of download_dir that extracting member path m creates
TopEntry(m) ==
    IF \E i \in 1..Len(m) : m[i] = "/"
    THEN SubSeq(m, 1, (CHOOSE i \in 1..Len(m) :
                          m[i] = "/" /\ \A j \in 1..(i - 1) : m[j] # "/") - 1)
    ELSE m

\* tar.extractall(path=download_dir)
ExtractAll(d, members) == d \cup { TopEntry(m) : m \in members }

\* the orders os.listdir may return the entries in
ListDirs(d) ==
    { o \in [1..Cardinality(d) -> d] :
        \A i, j \in 1..Cardinality(d) : i # j => o[i] # o[j] }

\* for name in listing: if name.lower().endswith(".fits"): ...; break
FirstFits(listing) ==
    IF \E i \in 1..Len(listing) : IsFitsUrl(listing[i])
    THEN PathJoin(download_dir,
                  listing[CHOOSE i \in 1..Len(listing) :
                             /\ IsFitsUrl(listing[i])
                             /\ \A j \in 1..(i - 1) : ~IsFitsUrl(listing[j])])
    ELSE None

\* fits.open succeeds on an existing file whose content is an image; a
\* file's content is taken to follow its extension
Opens(path) == path # None /\ IsFitsUrl(path)

\* ------------------------------------------------------------------------
\* Contrast bounds
\* ------------------------------------------------------------------------
HasNaN(a) == \E i \in 1..Len(a) : a[i].kind = "nan"

SortedVals(a) == SortSeq([i \in 1..Len(a) |-> a[i].val], <)

\* np.percentile(a, q), linear interpolation between the two nearest ranks;
\* the result is in hundredths of the pixel unit, NaN if any pixel is NaN
Percentile(a, q) ==
    IF HasNaN(a) THEN NaN
    ELSE LET s == SortedVals(a)
             n == Len(s)
             pos == q * (n - 1)
             lo == pos \div 100
             g == pos % 100
             hi == IF lo + 1 > n - 1 THEN n - 1 ELSE lo + 1
         IN  Num(100 * s[lo + 1] + g * (s[hi + 1] - s[lo + 1]))

\* a > b on floats: False when either side is NaN
Gt(a, b) == a.kind = "num" /\ b.kind = "num" /\ a.val > b.val

\* Python's max(a, b): b if b > a else a
PyMax(a, b) == IF Gt(b, a) THEN b ELSE a

\* 1e-10 in hundredths of the pixel unit
VminFloor == Num(100)

\* LogNorm(vmin=max(vmin, 1e-10), vmax=vmax)
LogNorm(lo, hi) == [vmin |-> PyMax(lo, VminFloor), vmax |-> hi]

\* the norm maps the image only if both bounds have a finite logarithm and
\* vmin <= vmax; otherwise drawing raises ValueError
NormUsable(n) ==
    /\ n.vmin.kind = "num" /\ n.vmin.val > 0
    /\ n.vmax.kind = "num" /\ n.vmax.val > 0
    /\ n.vmin.val <= n.vmax.val

\* seq[i] in Python: negative indices count from the end, anything else
\* outside the sequence is IndexError ([ok |-> FALSE])
PyItem(seq, i) ==
    IF 0 <= i /\ i < Len(seq) THEN [ok |-> TRUE, val |-> seq[i + 1]]
    ELSE IF i < 0 /\ -i <= Len(seq) THEN [ok |-> TRUE, val |-> seq[Len(seq) + i + 1]]
    ELSE [ok |-> FALSE, val |-> None]

\* an index variable before its prompt, and one still holding the text
\* that int() refused
NoIndex == [ok |-> FALSE, val |-> 0, raw |-> <<>>]
Raw(inp) == [ok |-> FALSE, val |-> 0, raw |-> inp]

\* ------------------------------------------------------------------------
\* The scripts
\* ------------------------------------------------------------------------
Scripts == {"alma", "w_hydrae"}

Init ==
    /\ script \in Scripts
    /\ pc = IF script = "alma" THEN "ask_target" ELSE "resolve"
    /\ target_name = IF script = "alma" THEN None ELSE <<"W"," ","H","y","a">>
    /\ radius = IF script = "alma" THEN NoRadius
                ELSE [ok |-> TRUE, kind |-> "num", num |-> 1, den |-> 10]
    /\ radius_input = None
    /\ out = ""
    /\ results = <<>>
    /\ ds_index = NoIndex
    /\ selected_uid = None
    /\ info_table = <<>>
    /\ colnames = {}
    /\ fits_urls = <<>>
    /\ rows = <<>>
    /\ file_index = NoIndex
    /\ first_file_url = None
    /\ downloaded_file = None
    /\ dir \in SUBSET PriorFiles
    /\ tar_members = {}
    /\ fits_file = None
    /\ hdul = "none"
    /\ data = <<>>
    /\ vmin = NoValue
    /\ vmax = NoValue
    /\ norm = NoNorm
    /\ calls = {}
    /\ error = ""

\* an uncaught exception ends the script
Raise(e) == pc' = "aborted" /\ error' = e

\* target_name = input(...).strip()
AskTarget ==
    /\ script = "alma" /\ pc = "ask_target"
    /\ \E inp \in TargetInputs : target_name' = Strip(inp)
    /\ pc' = "ask_radius"
    /\ calls' = calls \cup {"prompt_target"}
    /\ UNCHANGED <<script, radius_input, out, radius, results, ds_index,
                   selected_uid, info_table, colnames, fits_urls, rows, file_index,
                   first_file_url, downloaded_file, dir, tar_members,
                   fits_file, hdul, data, vmin, vmax, norm, error>>

\* one pass of the radius loop
AskRadius ==
    /\ script = "alma" /\ pc = "ask_radius"
    /\ \E inp \in RadiusInputs :
          LET r == FloatParse(Strip(inp))
          IN  /\ radius_input' = Strip(inp)
              /\ IF r.ok
                 THEN /\ radius' = r
                      /\ IF RadiusOk(r)
                         THEN pc' = "resolve" /\ out' = out
                         ELSE pc' = pc /\ out' = "Radius must be positive."
                 ELSE /\ radius' = radius
                      /\ pc' = pc
                      /\ out' = "Invalid input. Enter a number."
    /\ calls' = calls \cup {"prompt_radius"}
    /\ UNCHANGED <<script, target_name, results, ds_index, selected_uid,
                   info_table, colnames, fits_urls, rows, file_index,
                   first_file_url, downloaded_file, dir, tar_members,
                   fits_file, hdul, data, vmin, vmax, norm, error>>

\* coord = SkyCoord.from_name(target_name), the name resolves
Resolve ==
    /\ pc = "resolve"
    /\ pc' = "query"
    /\ out' = IF script = "alma" THEN "Coordinates of target" ELSE out
    /\ calls' = calls \cup {"from_name"}
    /\ UNCHANGED <<script, target_name, radius_input, radius, results,
                   ds_index, selected_uid, info_table, colnames, fits_urls,
                   rows, file_index, first_file_url, downloaded_file, dir,
                   tar_members, fits_file, hdul, data, vmin, vmax, norm,
                   error>>

\* coord = SkyCoord.from_name(target_name), the name does not resolve
ResolveFails ==
    /\ pc = "resolve"
    /\ Raise("NameResolveError")
    /\ calls' = calls \cup {"from_name"}
    /\ UNCHANGED <<script, target_name, radius_input, out, radius, results,
                   ds_index, selected_uid, info_table, colnames, fits_urls,
                   rows, file_index, first_file_url, downloaded_file, dir,
                   tar_members, fits_file, hdul, data, vmin, vmax, norm>>

\* results = alma.query_region(...) and the check for an empty result
Query ==
    /\ pc = "query"
    /\ \E res \in ResultSets :
          /\ results' = res
          /\ IF NoDatasets(res)
             THEN Raise("RuntimeError: No ALMA datasets found")
             ELSE pc' = "ask_ds" /\ error' = error
    /\ out' = "Total datasets found"
    /\ calls' = calls \cup {"query_region"}
    /\ UNCHANGED <<script, target_name, radius_input, radius, ds_index,
                   selected_uid, info_table, colnames, fits_urls, rows,
                   file_index, first_file_url, downloaded_file, dir,
                   tar_members, fits_file, hdul, data, vmin, vmax, norm>>

\* one pass of the dataset loop and, on leaving it, the lookup of the uid
PickDataset ==
    /\ pc = "ask_ds"
    /\ \E inp \in IndexInputs :
          LET p == IntParse(inp)
              item == PyItem(results, p.val)
          IN  /\ IF ~p.ok
                 THEN /\ ds_index' = Raw(inp)
                      /\ out' = "Invalid input, enter a number."
                      /\ calls' = calls \cup {"prompt_ds"}
                      /\ UNCHANGED <<pc, selected_uid, error>>
                 ELSE /\ ds_index' = p
                      /\ IF ~InRange(p.val, Len(results))
                         THEN /\ out' = "Index out of range, try again."
                              /\ calls' = calls \cup {"prompt_ds"}
                              /\ UNCHANGED <<pc, selected_uid, error>>
                         ELSE /\ out' = out
                              /\ calls' = calls \cup {"prompt_ds", "uid_lookup"}
                              /\ IF item.ok
                                 THEN /\ selected_uid' = item.val
                                      /\ pc' = "list_files"
                                      /\ error' = error
                                 ELSE /\ selected_uid' = selected_uid
                                      /\ Raise("IndexError")
    /\ UNCHANGED <<script, target_name, radius_input, radius, results,
                   info_table, colnames, fits_urls, rows, file_index, first_file_url,
                   downloaded_file, dir, tar_members, fits_file, hdul, data,
                   vmin, vmax, norm>>

\* info_table = alma.get_data_info(...), the filter, the check for an empty
\* candidate list and the printed summary
ListFiles ==
    /\ pc = "list_files"
    /\ \E table \in Listings, cols \in ColumnSets :
          LET urls == FilterUrls(table)
          IN  /\ info_table' = table
              /\ colnames' = cols
              /\ fits_urls' = urls
              /\ IF NoFilesFound(urls)
                 THEN /\ Raise("RuntimeError: No FITS or tarball files found")
                      /\ UNCHANGED <<rows, out>>
                 ELSE /\ rows' = IF script = "alma"
                                 THEN SummaryRows(table, cols, urls)
                                 ELSE UrlRows(urls)
                      /\ out' = "Available files"
                      /\ pc' = "ask_file"
                      /\ error' = error
    /\ calls' = calls \cup {"get_data_info"}
    /\ UNCHANGED <<script, target_name, radius_input, radius, results, ds_index,
                   selected_uid, file_index, first_file_url, downloaded_file,
                   dir, tar_members, fits_file, hdul, data, vmin, vmax, norm>>

\* one pass of the file loop and, on leaving it, the lookup of the URL
PickFile ==
    /\ pc = "ask_file"
    /\ \E inp \in IndexInputs :
          LET p == IntParse(inp)
              item == PyItem(fits_urls, p.val)
          IN  /\ IF ~p.ok
                 THEN /\ file_index' = Raw(inp)
                      /\ out' = "Invalid input, enter a number."
                      /\ calls' = calls \cup {"prompt_file"}
                      /\ UNCHANGED <<pc, first_file_url, error>>
                 ELSE /\ file_index' = p
                      /\ IF ~InRange(p.val, Len(fits_urls))
                         THEN /\ out' = "Index out of range, try again."
                              /\ calls' = calls \cup {"prompt_file"}
                              /\ UNCHANGED <<pc, first_file_url, error>>
                         ELSE /\ out' = out
                              /\ calls' = calls \cup {"prompt_file", "url_lookup"}
                              /\ IF item.ok
                                 THEN /\ first_file_url' = item.val
                                      /\ pc' = "download"
                                      /\ error' = error
                                 ELSE /\ first_file_url' = first_file_url
                                      /\ Raise("IndexError")
    /\ UNCHANGED <<script, target_name, radius_input, radius, results,
                   ds_index, selected_uid, info_table, colnames, fits_urls, rows,
                   downloaded_file, dir, tar_members, fits_file, hdul, data,
                   vmin, vmax, norm>>

\* downloaded = alma.download_files([first_file_url], ...): the file appears
\* in download_dir; a tarball arrives with some set of members
Download ==
    /\ pc = "download"
    /\ downloaded_file' = DownloadPath(first_file_url)
    /\ dir' = dir \cup {Basename(first_file_url)}
    /\ IF IsTarGzUrl(first_file_url)
       THEN tar_members' \in SUBSET MemberPool
       ELSE tar_members' = {}
    /\ pc' = "extract"
    /\ calls' = calls \cup {"download_files"}
    /\ UNCHANGED <<script, target_name, radius_input, out, radius, results,
                   ds_index, selected_uid, info_table, colnames, fits_urls,
                   rows, file_index, first_file_url, fits_file, hdul, data,
                   vmin, vmax, norm, error>>

\* extraction of an archive and the scan of download_dir for an image,
\* or the downloaded file itself
Extract ==
    /\ pc = "extract"
    /\ IF IsArchiveName(downloaded_file)
       THEN LET after == ExtractAll(dir, tar_members)
            IN  /\ dir' = after
                /\ \E listing \in ListDirs(after) :
                      fits_file' = FirstFits(listing)
                /\ calls' = calls \cup {"extractall"}
       ELSE /\ fits_file' = downloaded_file
            /\ UNCHANGED <<dir, calls>>
    /\ out' = "Downloaded FITS file"
    /\ pc' = "open"
    /\ UNCHANGED <<script, target_name, radius_input, radius, results, ds_index,
                   selected_uid, info_table, colnames, fits_urls, rows,
                   file_index, first_file_url, downloaded_file, tar_members,
                   hdul, data, vmin, vmax, norm, error>>

\* hdul = fits.open(fits_file); data = hdul[0].data
Open ==
    /\ pc = "open"
    /\ IF Opens(fits_file)
       THEN /\ hdul' = "open"
            /\ data' \in Images
            /\ pc' = "plot"
            /\ error' = error
       ELSE /\ Raise("fits.open failed")
            /\ UNCHANGED <<hdul, data>>
    /\ calls' = calls \cup {"fits.open"}
    /\ UNCHANGED <<script, target_name, radius_input, out, radius, results,
                   ds_index, selected_uid, info_table, colnames, fits_urls,
                   rows, file_index, first_file_url, downloaded_file, dir,
                   tar_members, fits_file, vmin, vmax, norm>>

\* the percentiles, imshow with the LogNorm, colorbar and labels
Plot ==
    /\ pc = "plot"
    /\ vmin' = Percentile(data, 1)
    /\ vmax' = Percentile(data, 99)
    /\ norm' = LogNorm(Percentile(data, 1), Percentile(data, 99))
    /\ IF NormUsable(LogNorm(Percentile(data, 1), Percentile(data, 99)))
       THEN pc' = "show" /\ error' = error
       ELSE Raise("ValueError: vmin, vmax")
    /\ calls' = calls \cup {"imshow"}
    /\ UNCHANGED <<script, target_name, radius_input, out, radius, results,
                   ds_index, selected_uid, info_table, colnames, fits_urls,
                   rows, file_index, first_file_url, downloaded_file, dir,
                   tar_members, fits_file, hdul, data>>

\* plt.show(), after which the script ends
Show ==
    /\ pc = "show"
    /\ pc' = "done"
    /\ calls' = calls \cup {"show"}
    /\ UNCHANGED <<script, target_name, radius_input, out, radius, results,
                   ds_index, selected_uid, info_table, colnames, fits_urls,
                   rows, file_index, first_file_url, downloaded_file, dir,
                   tar_members, fits_file, hdul, data, vmin, vmax, norm,
                   error>>

Next ==
    \/ AskTarget
    \/ AskRadius
    \/ Resolve
    \/ ResolveFails
    \/ Query
    \/ PickDataset
    \/ ListFiles
    \/ PickFile
    \/ Download
    \/ Extract
    \/ Open
    \/ Plot
    \/ Show

Spec == Init /\ [][Next]_vars

\* ------------------------------------------------------------------------
\* Vocabulary of the properties
\* ------------------------------------------------------------------------
UpperChar(c) ==
    IF \E i \in 1..Len(LowerCase) : LowerCase[i] = c
    THEN UpperCase[CHOOSE i \in 1..Len(LowerCase) : LowerCase[i] = c]
    ELSE c

\* url ends in ext, whatever the case of each letter
HasExtension(url, ext) ==
    /\ Len(url) >= Len(ext)
    /\ \A k \in 1..Len(ext) :
          url[Len(url) - Len(ext) + k] \in {ext[k], UpperChar(ext[k])}

ImageExt == <<".","f","i","t","s">>
ArchiveExt == <<".","t","a","r",".","g","z">>
ImageUrl(url) == HasExtension(url, ImageExt)
ArchiveUrl(url) == HasExtension(url, ArchiveExt)

\* the URLs of the listing that end in ext, in listing order
RECURSIVE Kept(_, _)
Kept(urls, ext) ==
    IF urls = <<>> THEN <<>>
    ELSE IF HasExtension(Head(urls), ext)
    THEN <<Head(urls)>> \o Kept(Tail(urls), ext)
    ELSE Kept(Tail(urls), ext)

ListingUrls == [i \in 1..Len(info_table) |-> info_table[i].access_url]
Listed == "get_data_info" \in calls

\* C1: once a file listing has been returned, the candidate list is exactly
\* the listing's URLs ending in '.fits' (any case, in listing order) if there
\* is one, otherwise exactly those ending in '.tar.gz'; no archive URL is a
\* candidate when an image URL exists.
C1_FilterTiers ==
    Listed =>
        /\ fits_urls = IF \E i \in 1..Len(ListingUrls) : ImageUrl(ListingUrls[i])
                       THEN Kept(ListingUrls, ImageExt)
                       ELSE Kept(ListingUrls, ArchiveExt)
        /\ (\E i \in 1..Len(ListingUrls) : ImageUrl(ListingUrls[i]))
              => \A k \in 1..Len(fits_urls) : ~ArchiveUrl(fits_urls[k])

\* a listing with an upper-case image URL and an archive URL was filtered
C1_Witness ==
    /\ pc = "ask_file"
    /\ \E i \in 1..Len(ListingUrls) : ArchiveUrl(ListingUrls[i])
    /\ \E i \in 1..Len(ListingUrls) :
          ImageUrl(ListingUrls[i]) /\ ~EndsWith(ListingUrls[i], FitsSuffix)
    /\ Len(fits_urls) = 1

\* C2: a listing with neither an image nor an archive URL aborts the run with
\* the explicit error, and the run holds no file prompt, no download and no
\* display.
C2_NoFilesAborts ==
    (Listed /\ \A i \in 1..Len(ListingUrls) :
                    ~ImageUrl(ListingUrls[i]) /\ ~ArchiveUrl(ListingUrls[i]))
        => /\ pc = "aborted"
           /\ error = "RuntimeError: No FITS or tarball files found"
           /\ calls \cap {"prompt_file", "download_files", "imshow", "show"} = {}

\* a non-empty listing of other files was returned and the run aborted
C2_Witness ==
    /\ Listed
    /\ Len(info_table) > 0
    /\ fits_urls = <<>>
    /\ pc = "aborted"

\* an index value that the prompt for a list of count entries must refuse
Refused(idx, count) == ~idx.ok \/ idx.val < 0 \/ idx.val >= count

\* the states in which an index has been used for a lookup hold an integer
\* index inside the list it was used on, and the entry looked up
LookupsInRange ==
    /\ "uid_lookup" \in calls =>
          /\ ds_index.ok
          /\ ds_index.val \in 0..(Len(results) - 1)
          /\ selected_uid = results[ds_index.val + 1]
    /\ "url_lookup" \in calls =>
          /\ file_index.ok
          /\ file_index.val \in 0..(Len(fits_urls) - 1)
          /\ first_file_url = fits_urls[file_index.val + 1]

\* a refused answer leaves the script at the same prompt, with a message
RefusedReprompts ==
    /\ (pc = "ask_ds" /\ Refused(ds_index', Len(results))) =>
          /\ pc' = "ask_ds"
          /\ selected_uid' = selected_uid
          /\ "uid_lookup" \notin calls'
          /\ out' \in {"Invalid input, enter a number.",
                       "Index out of range, try again."}
    /\ (pc = "ask_file" /\ Refused(file_index', Len(fits_urls))) =>
          /\ pc' = "ask_file"
          /\ first_file_url' = first_file_url
          /\ "url_lookup" \notin calls'
          /\ out' \in {"Invalid input, enter a number.",
                       "Index out of range, try again."}

\* C3: at the dataset prompt and at the file prompt an answer that is not an
\* integer, or is an integer outside [0, count), leads back to the same
\* prompt; the index used for the dataset lookup is in [0, number of
\* datasets) and the index used for the URL lookup is in [0, number of
\* candidate files).
C3_IndexValidated == [](LookupsInRange) /\ [][RefusedReprompts]_vars

\* a file was looked up after an out-of-range answer had been refused
C3_Witness ==
    /\ pc = "download"
    /\ "url_lookup" \in calls
    /\ out = "Index out of range, try again."
    /\ file_index.val = Len(fits_urls) - 1

\* the answers to the radius prompt, after strip(), by what they denote
NonNumericRadius == { <<"a","b","c">>, <<>> }
NonPositiveRadius == { <<"0">>, <<"-","1">>, <<"0",".","0">>, <<"-","i","n","f">> }
PositiveRadius == { <<"0",".","1">>, <<"2">> }

\* the rational a positive answer denotes, as numerator and denominator
RadiusValue(inp) ==
    IF inp = <<"0",".","1">> THEN <<1, 10>> ELSE <<2, 1>>

\* a refused radius leaves the script at the radius prompt
RadiusReprompts ==
    (pc = "ask_radius" /\ radius_input' \in NonNumericRadius \cup NonPositiveRadius)
        => /\ pc' = "ask_radius"
           /\ calls' \cap {"from_name", "query_region"} = {}
           /\ out' \in {"Invalid input. Enter a number.",
                        "Radius must be positive."}

\* past the radius prompt the radius is the positive value typed last
RadiusPositive ==
    (script = "alma" /\ pc \notin {"ask_target", "ask_radius"}) =>
        /\ radius_input \in PositiveRadius
        /\ radius.kind = "num"
        /\ radius.num > 0
        /\ <<radius.num, radius.den>> = RadiusValue(radius_input)

\* name resolution and the query happen past the radius prompt only
QueryAfterRadius ==
    (script = "alma" /\ calls \cap {"from_name", "query_region"} # {})
        => pc \notin {"ask_target", "ask_radius"}

\* C4: at the radius prompt an answer that is non-numeric or denotes a value
\* <= 0 leads back to the prompt; name resolution and the archive query are
\* not invoked before an answer denoting a value > 0 was given, and the
\* radius of the query is that value.
C4_RadiusValidated ==
    [](RadiusPositive /\ QueryAfterRadius) /\ [][RadiusReprompts]_vars

\* the radius 0.1 was accepted after a non-positive answer had been refused
C4_Witness ==
    /\ script = "alma"
    /\ pc = "resolve"
    /\ out = "Radius must be positive."
    /\ <<radius.num, radius.den>> = <<1, 10>>

\* C5: an empty record set from the archive query aborts the run with the
\* explicit error, and the run holds no dataset prompt, no file listing and
\* no download.
C5_NoDatasetsAborts ==
    ("query_region" \in calls /\ Len(results) = 0)
        => /\ pc = "aborted"
           /\ error = "RuntimeError: No ALMA datasets found"
           /\ calls \cap {"prompt_ds", "get_data_info", "download_files"} = {}

\* the query returned no record and the run aborted
C5_Witness ==
    /\ "query_region" \in calls
    /\ results = <<>>
    /\ pc = "aborted"

\* the image-open step has been given its file
OpenCalled == "fits.open" \in calls

\* the image files of the downloaded archive, as paths under download_dir
ArchiveImages ==
    { PathJoin(download_dir, m) : m \in { x \in tar_members : ImageUrl(x) } }

\* C6: when the downloaded file is a compressed archive (holding an image),
\* the file passed to the image-open step is an image file of that archive,
\* whatever the download directory held before; when it is not an archive,
\* the downloaded file itself is passed.
C6_OpensArchiveImage ==
    OpenCalled =>
        IF IsArchiveName(downloaded_file)
        THEN ArchiveImages # {} => fits_file \in ArchiveImages
        ELSE fits_file = downloaded_file

\* C7: a run that opened the image file has released the handle when it
\* reaches the display step or the end of the script.
C7_HandleReleased ==
    (pc \in {"show", "done"}) => hdul # "open"

\* C8: the contrast bounds given to the logarithmic display are well
\* defined: the lower bound is max(1st percentile, 1e-10), strictly positive
\* and not greater than the upper bound, the 99th percentile.
C8_BoundsWellDefined ==
    "imshow" \in calls =>
        /\ norm.vmax = vmax
        /\ norm.vmin.kind = "num"
        /\ norm.vmin.val > 0
        /\ vmin.kind = "num" =>
              norm.vmin.val = IF vmin.val > 100 THEN vmin.val ELSE 100
        /\ norm.vmax.kind = "num"
        /\ norm.vmin.val <= norm.vmax.val

\* the positions in the listing whose URL is candidate k
SourcesOf(k) == { j \in 1..Len(info_table) : info_table[j].access_url = fits_urls[k] }

\* C9: in the summary of alma.py the format and size on row i are those of
\* the listing record whose URL is on row i.
C9_RowsMatchRecords ==
    (script = "alma" /\ Listed /\ pc # "aborted") =>
        /\ Len(rows) = Len(fits_urls)
        /\ \A k \in 1..Len(rows) :
              /\ rows[k].file = Basename(fits_urls[k])
              /\ \E j \in SourcesOf(k) :
                    /\ rows[k].fmt = IF "access_format" \in colnames
                                     THEN info_table[j].access_format ELSE "N/A"
                    /\ rows[k].size = IF "access_estsize" \in colnames
                                      THEN info_table[j].access_estsize ELSE "N/A"

\* C10: a selected file that the filter accepted as an archive, downloaded
\* under the URL's file name, is extracted before the image-open step and is
\* not itself passed to that step.
C10_ArchiveExtracted ==
    (/\ OpenCalled
     /\ ArchiveUrl(first_file_url)
     /\ Basename(downloaded_file) = Basename(first_file_url))
        => /\ "extractall" \in calls
           /\ fits_file # downloaded_file

====
